---- MODULE Spec2Model ----
(***************************************************************************)
(* Model of the LINE Login OAuth broker: the Hono handlers GET /authorize,  *)
(* POST /authorize and GET /callback (line-handler.ts) and the helpers they *)
(* call (workers-oauth-utils.ts, utils.ts, supabase-client.ts).             *)
(*                                                                          *)
(* Strings whose bytes the code inspects (cookie values, signatures, state  *)
(* tokens, hashes) are sequences of one-character strings.                  *)
(***************************************************************************)
EXTENDS Integers, Sequences, FiniteSets, TLC

(***************************************************************************)
(* Bounds of the model.                                                     *)
(***************************************************************************)
\* user agents (browsers), each with its own cookie jar
NumAgents == 2
\* HTTP requests (GET /authorize, POST /authorize, GET /callback) served over a run
MaxRequests == 3

(***************************************************************************)
(* Characters.                                                              *)
(***************************************************************************)
AsciiTable ==
  { <<"\"", 34>>, <<"%", 37>>, <<",", 44>>, <<"-", 45>>,
    <<"0", 48>>, <<"1", 49>>, <<"2", 50>>, <<"3", 51>>, <<"4", 52>>,
    <<"5", 53>>, <<"6", 54>>, <<"7", 55>>, <<"8", 56>>, <<"9", 57>>,
    <<"?", 63>>,
    <<"A", 65>>, <<"B", 66>>, <<"C", 67>>, <<"D", 68>>, <<"E", 69>>,
    <<"F", 70>>, <<"[", 91>>, <<"]", 93>>,
    <<"a", 97>>, <<"b", 98>>, <<"c", 99>>, <<"d", 100>>, <<"e", 101>>,
    <<"f", 102>>, <<"k", 107>>, <<"u", 117>>, <<"x", 120>>, <<"|", 124>> }

Code(c) == (CHOOSE p \in AsciiTable : p[1] = c)[2]

HasChr(n) == \E p \in AsciiTable : p[2] = n

Chr(n) == (CHOOSE p \in AsciiTable : p[2] = n)[1]

LowerHex == <<"0", "1", "2", "3", "4", "5", "6", "7", "8", "9",
              "a", "b", "c", "d", "e", "f">>

UpperHex == <<"0", "1", "2", "3", "4", "5", "6", "7", "8", "9",
              "A", "B", "C", "D", "E", "F">>

\* b.toString(16).padStart(2, "0")
ToHex2(b) == <<LowerHex[(b \div 16) + 1], LowerHex[(b % 16) + 1]>>

IsHexDigit(c) == \E i \in 1..16 : LowerHex[i] = c \/ UpperHex[i] = c

HexValue(c) == (CHOOSE i \in 1..16 : LowerHex[i] = c \/ UpperHex[i] = c) - 1

\* String.prototype.slice(from, to) with 0-based, end-exclusive indices
Slice(s, from, to) == SubSeq(s, from + 1, to)

\* String.prototype.lastIndexOf(c): 0-based index of the last c, or -1
LastIndexOf(s, c) ==
  IF \E i \in 1..Len(s) : s[i] = c
    THEN (CHOOSE i \in 1..Len(s) : s[i] = c /\ \A j \in (i+1)..Len(s) : s[j] # c) - 1
    ELSE -1

\* String.prototype.indexOf(c)
IndexOf(s, c) ==
  IF \E i \in 1..Len(s) : s[i] = c
    THEN (CHOOSE i \in 1..Len(s) : s[i] = c /\ \A j \in 1..(i-1) : s[j] # c) - 1
    ELSE -1

\* Array.prototype.includes
Includes(list, x) == \E i \in 1..Len(list) : list[i] = x

(***************************************************************************)
(* Digests.  crypto.subtle.digest("SHA-256") and the HMAC-SHA-256 of        *)
(* crypto.subtle.sign are modelled by a one-byte polynomial digest, printed *)
(* as two lower-case hex digits the way the code prints each byte.  The     *)
(* code relies on two properties only: the digest is a function of its      *)
(* input, and distinct inputs (keys) of the domain give distinct digests;   *)
(* DigestsCollisionFree checks the second on the values the model uses.     *)
(***************************************************************************)
DigestWidth == 16 * 16

RECURSIVE Fold(_, _)
Fold(s, h) ==
  IF s = <<>> THEN h
  ELSE Fold(Tail(s), (h * 31 + Code(Head(s))) % DigestWidth)

sha256(data) == ToHex2(Fold(data, 7))

\* importKey(secret) + crypto.subtle.sign("HMAC", key, data), hex-printed
signData(data, secret) == ToHex2((Fold(data, 11) + 16 * Fold(secret, 3)) % DigestWidth)

verifySignature(data, signature, secret) ==
  signData(data, secret) = signature

(***************************************************************************)
(* encodeURIComponent / decodeURIComponent.                                 *)
(***************************************************************************)
\* the characters of the alphabet that encodeURIComponent leaves alone
IsUnreserved(c) ==
  \/ Code(c) \in 48..57
  \/ Code(c) \in 65..70
  \/ Code(c) \in 97..122
  \/ c = "-"

RECURSIVE encodeURIComponent(_)
encodeURIComponent(s) ==
  IF s = <<>> THEN <<>>
  ELSE LET c == Head(s) IN
       (IF IsUnreserved(c) THEN <<c>>
        ELSE <<"%", UpperHex[(Code(c) \div 16) + 1], UpperHex[(Code(c) % 16) + 1]>>)
       \o encodeURIComponent(Tail(s))

\* The result of a call that may throw: ok = FALSE stands for the exception.
Returned(v) == [ok |-> TRUE, value |-> v]
Thrown(kind) == [ok |-> FALSE, value |-> kind]

\* decodeURIComponent: a "%" not followed by two hex digits, or an escape
\* that is no complete UTF-8 sequence (a lone byte >= 0x80), throws URIError.
\* An escaped ASCII character outside the alphabet is read as "?".
RECURSIVE decodeFrom(_, _)
decodeFrom(s, acc) ==
  IF s = <<>> THEN Returned(acc)
  ELSE IF Head(s) # "%" THEN decodeFrom(Tail(s), Append(acc, Head(s)))
  ELSE IF Len(s) < 3 \/ ~IsHexDigit(s[2]) \/ ~IsHexDigit(s[3]) THEN Thrown("URIError")
  ELSE LET b == 16 * HexValue(s[2]) + HexValue(s[3]) IN
       IF b >= 128 THEN Thrown("URIError")
       ELSE decodeFrom(SubSeq(s, 4, Len(s)),
                       Append(acc, IF HasChr(b) THEN Chr(b) ELSE "?"))

decodeURIComponent(s) == decodeFrom(s, <<>>)

(***************************************************************************)
(* JSON of a string[] (the approved-clients record).  The client ids of the *)
(* model hold no character that JSON escapes.                               *)
(***************************************************************************)
RECURSIVE JoinQuoted(_)
JoinQuoted(list) ==
  IF list = <<>> THEN <<>>
  ELSE <<"\"">> \o Head(list) \o <<"\"">>
       \o (IF Len(list) > 1 THEN <<",">> ELSE <<>>)
       \o JoinQuoted(Tail(list))

\* JSON.stringify(approved)
JSONStringifyList(list) == <<"[">> \o JoinQuoted(list) \o <<"]">>

\* the elements of a JSON array body: "s1","s2",...
RECURSIVE ParseElems(_, _)
ParseElems(s, acc) ==
  IF s = <<>> \/ Head(s) # "\"" THEN Thrown("SyntaxError")
  ELSE LET rest == Tail(s)
           q == IndexOf(rest, "\"")
       IN IF q = -1 THEN Thrown("SyntaxError")
          ELSE LET item == Slice(rest, 0, q)
                   after == SubSeq(rest, q + 2, Len(rest))
               IN IF after = <<>> THEN Returned(Append(acc, item))
                  ELSE IF Head(after) # "," THEN Thrown("SyntaxError")
                  ELSE ParseElems(Tail(after), Append(acc, item))

\* JSON.parse(data) on the texts the model meets: a string[] or no JSON at all
JSONParseList(s) ==
  IF Len(s) < 2 \/ s[1] # "[" \/ s[Len(s)] # "]" THEN Thrown("SyntaxError")
  ELSE IF Len(s) = 2 THEN Returned(<<>>)
  ELSE ParseElems(SubSeq(s, 2, Len(s) - 1), <<>>)

(***************************************************************************)
(* Cookies.  A Cookie request header is the sequence of its name=value      *)
(* pairs; a Set-Cookie directive is [name, value, maxAge].                  *)
(***************************************************************************)
\* absent: the value of a missing property, parameter, cookie or form field
Undefined == <<"undefined">>

CSRF_COOKIE == "__Host-csrf"
SESSION_COOKIE == "__Host-session"
APPROVED_COOKIE == "__Host-approved"
CookieNames == {CSRF_COOKIE, SESSION_COOKIE, APPROVED_COOKIE}

\* parseCookies: cookies[key] = value for every pair, a later pair winning
RECURSIVE parseCookiesFrom(_, _)
parseCookiesFrom(pairs, cookies) ==
  IF pairs = <<>> THEN cookies
  ELSE parseCookiesFrom(Tail(pairs),
         [cookies EXCEPT ![Head(pairs)[1]] = Head(pairs)[2]])

parseCookies(cookieHeader) ==
  parseCookiesFrom(cookieHeader, [n \in CookieNames |-> Undefined])

\* JavaScript falsiness of a string-or-undefined value: !v
Falsy(v) == v = Undefined \/ v = <<>>

(***************************************************************************)
(* Client approval (cookie-based).                                          *)
(***************************************************************************)
\* Session cookie Max-Age and the default ttl of createOAuthState
SessionMaxAge == 600
DefaultTtl == 600
ApprovedMaxAge == 31536000

getApprovedClientsFromCookie(cookieHeader, secret) ==
  LET raw == parseCookies(cookieHeader)[APPROVED_COOKIE] IN
  IF Falsy(raw) THEN Returned(<<>>)
  ELSE LET dec == decodeURIComponent(raw) IN
    IF ~dec.ok THEN dec
    ELSE LET decoded == dec.value
             pipeIdx == LastIndexOf(decoded, "|")
         IN IF pipeIdx = -1 THEN Returned(<<>>)
            ELSE LET data == Slice(decoded, 0, pipeIdx)
                     signature == Slice(decoded, pipeIdx + 1, Len(decoded))
                 IN IF ~verifySignature(data, signature, secret) THEN Returned(<<>>)
                    ELSE LET parsed == JSONParseList(data) IN
                         IF parsed.ok THEN parsed ELSE Returned(<<>>)

\* ok = FALSE when the call throws (the URIError of decodeURIComponent)
isClientApproved(cookieHeader, clientId, secret) ==
  LET approved == getApprovedClientsFromCookie(cookieHeader, secret) IN
  IF ~approved.ok THEN approved
  ELSE Returned(Includes(approved.value, clientId))

SetCookie(name, value, maxAge) == [name |-> name, value |-> value, maxAge |-> maxAge]

\* an approval that appends the client id without looking for it
addApprovedClientAlwaysPushes(cookieHeader, clientId, secret) ==
  LET approved == getApprovedClientsFromCookie(cookieHeader, secret) IN
  IF ~approved.ok THEN approved
  ELSE LET data == JSONStringifyList(Append(approved.value, clientId))
           value == data \o <<"|">> \o signData(data, secret)
       IN Returned(SetCookie(APPROVED_COOKIE, encodeURIComponent(value), ApprovedMaxAge))

addApprovedClient(cookieHeader, clientId, secret) ==
  LET approved == getApprovedClientsFromCookie(cookieHeader, secret) IN
  IF ~approved.ok THEN approved
  ELSE LET list == IF Includes(approved.value, clientId) THEN approved.value
                   ELSE Append(approved.value, clientId)
           data == JSONStringifyList(list)
           signature == signData(data, secret)
           value == data \o <<"|">> \o signature
       IN Returned(SetCookie(APPROVED_COOKIE, encodeURIComponent(value), ApprovedMaxAge))

(***************************************************************************)
(* The pending authorization (AuthRequest) and its JSON.  The JSON text of  *)
(* an object is the sequence of its members <<key, text of the value>>;     *)
(* JSON.stringify leaves out a member whose value is undefined, and reading *)
(* a member the parsed object lacks gives undefined.                        *)
(***************************************************************************)
AuthRequest(clientId, scope, codeChallenge) ==
  [clientId |-> clientId, scope |-> scope, codeChallenge |-> codeChallenge]

Quote(str) == <<"\"">> \o str \o <<"\"">>

\* JSON.stringify(oauthReqInfo)
JSONStringifyRequest(req) ==
  (IF req.clientId = Undefined THEN <<>>
   ELSE << <<"clientId", Quote(req.clientId)>> >>)
  \o << <<"scope", JSONStringifyList(req.scope)>> >>
  \o (IF req.codeChallenge = Undefined THEN <<>>
      ELSE << <<"codeChallenge", Quote(req.codeChallenge)>> >>)

HasMember(text, key) == \E i \in 1..Len(text) : text[i][1] = key

Member(text, key) == text[CHOOSE i \in 1..Len(text) : text[i][1] = key][2]

\* the string a JSON string literal denotes
Unquote(lit) == SubSeq(lit, 2, Len(lit) - 1)

\* a member's value is a complete string literal or a complete string[]
IsJSONValue(v) ==
  \/ /\ Len(v) >= 2
     /\ v[1] = "\"" /\ v[Len(v)] = "\""
     /\ ~Includes(SubSeq(v, 2, Len(v) - 1), "\"")
  \/ JSONParseList(v).ok

\* JSON.parse(text) throws SyntaxError: some member's value is cut short
JSONParseThrows(text) == \E i \in 1..Len(text) : ~IsJSONValue(text[i][2])

\* JSON.parse(stored) as AuthRequest
JSONParseRequest(text) ==
  AuthRequest(
    IF HasMember(text, "clientId") THEN Unquote(Member(text, "clientId")) ELSE Undefined,
    IF HasMember(text, "scope") THEN JSONParseList(Member(text, "scope")).value ELSE <<>>,
    IF HasMember(text, "codeChallenge") THEN Unquote(Member(text, "codeChallenge"))
    ELSE Undefined)

(***************************************************************************)
(* The hidden state field of the consent form: btoa(JSON.stringify(state)). *)
(* The JSON text of the state object is the sequence of its members, here   *)
(* at most the one member oauthReqInfo.  btoa's output is kept opaque: atob *)
(* gives back what btoa was given and throws on any other text.             *)
(***************************************************************************)
btoa(text) == [kind |-> "b64", text |-> text]

atob(field) ==
  IF field.kind = "b64" THEN Returned(field.text) ELSE Thrown("InvalidCharacterError")

\* JSON.stringify(options.state) with state = { oauthReqInfo }
JSONStringifyState(oauthReqInfo) ==
  << <<"oauthReqInfo", JSONStringifyRequest(oauthReqInfo)>> >>

\* the JSON text null, which is no object
JSONNull == << <<"null">> >>

AbsentField == [kind |-> "absent", text |-> <<>>]
GarbageField == [kind |-> "garbage", text |-> <<>>]

(***************************************************************************)
(* Responses.                                                               *)
(***************************************************************************)
NoLocation == [to |-> "none", state |-> <<>>]

Response(status, body, setCookies, location) ==
  [status |-> status, body |-> body, setCookies |-> setCookies, location |-> location]

NoResponse == Response(0, "", <<>>, NoLocation)

\* OAuthError.toResponse(): the message and the status, no header
toResponse(statusCode, message) == Response(statusCode, message, <<>>, NoLocation)

\* c.text(message, status)
Text(message, status) == Response(status, message, <<>>, NoLocation)

(***************************************************************************)
(* Headers.  A Headers object is the sequence of the appended pairs; its    *)
(* iteration gives every set-cookie pair on its own, in the order appended; *)
(* Object.fromEntries keeps, for a name met twice, the later value.         *)
(***************************************************************************)
RECURSIVE ObjectFromEntriesFrom(_, _)
ObjectFromEntriesFrom(entries, obj) ==
  IF entries = <<>> THEN obj
  ELSE LET name == Head(entries)[1]
           value == Head(entries)[2]
       IN ObjectFromEntriesFrom(Tail(entries),
            [n \in (DOMAIN obj) \cup {name} |-> IF n = name THEN value ELSE obj[n]])

ObjectFromEntries(entries) == ObjectFromEntriesFrom(entries, <<>>)

\* the Set-Cookie headers of a Response built from a plain object of headers
SetCookiesOf(headers) ==
  IF "set-cookie" \in DOMAIN headers THEN <<headers["set-cookie"]>> ELSE <<>>

(***************************************************************************)
(* Environment and inputs.                                                  *)
(***************************************************************************)
Agents == 1..NumAgents

\* c.env.COOKIE_ENCRYPTION_KEY
COOKIE_ENCRYPTION_KEY == <<"k", "e">>

\* crypto.randomUUID(): the n-th value drawn, never drawn twice
Uuid(n) == <<"u", LowerHex[n + 1]>>

\* the namespaced key `oauth_state:${stateToken}`
KVKey(stateToken) == <<"k">> \o stateToken

ClientA == <<"a">>
ClientB == <<"b">>

\* what parseAuthRequest can return: two well-formed requests, one without client id
AuthRequests ==
  { AuthRequest(ClientA, << <<"a">>, <<"b">> >>, <<"c">>),
    AuthRequest(ClientB, << <<"a">> >>, Undefined),
    AuthRequest(<<>>, <<>>, Undefined) }

\* the authorization code LINE hands to an agent, and the account it stands for
CodeOf(a) == <<"c", LowerHex[a + 1]>>
LineUserOf(code) == <<"d">> \o Tail(code)
SupabaseUserOf(lineUserId) == <<"e">> \o Tail(lineUserId)

(***************************************************************************)
(* State.                                                                   *)
(***************************************************************************)
VARIABLES
  kv,        \* OAUTH_KV: key -> stored text, for the keys that hold a value
  jar,       \* jar[a]: the cookies of user agent a, by name
  flows,     \* the /authorize flows (tabs) started so far
  reqs,      \* the GET /callback requests received so far
  grants,    \* the completeAuthorization calls made so far
  nextUuid,  \* how many values crypto.randomUUID() has given out
  ac,        \* the approval-cache round trip of ApprovalSpec; idle under Spec
  cv         \* the CSRF validation of CsrfSpec; idle under Spec

vars == <<kv, jar, flows, reqs, grants, nextUuid, ac, cv>>

\* the requests served so far: every flow's GET, every submitted form, every callback
NumRequests ==
  Len(flows) + Cardinality({f \in 1..Len(flows) : flows[f].postResp.status # 0})
  + Len(reqs)

EmptyJar == [n \in CookieNames |-> Undefined]

\* the Cookie header a browser sends for its jar
CookieHeaderOf(j) ==
  (IF j[CSRF_COOKIE] = Undefined THEN <<>> ELSE << <<CSRF_COOKIE, j[CSRF_COOKIE]>> >>)
  \o (IF j[SESSION_COOKIE] = Undefined THEN <<>>
      ELSE << <<SESSION_COOKIE, j[SESSION_COOKIE]>> >>)
  \o (IF j[APPROVED_COOKIE] = Undefined THEN <<>>
      ELSE << <<APPROVED_COOKIE, j[APPROVED_COOKIE]>> >>)

\* the browser storing the Set-Cookie headers of a response; Max-Age=0 removes
RECURSIVE ApplySetCookies(_, _)
ApplySetCookies(j, setCookies) ==
  IF setCookies = <<>> THEN j
  ELSE LET c == Head(setCookies) IN
       ApplySetCookies(
         [j EXCEPT ![c.name] = IF c.maxAge = 0 THEN Undefined ELSE c.value],
         Tail(setCookies))

KVPut(store, key, text) ==
  [k \in (DOMAIN store) \cup {key} |-> IF k = key THEN text ELSE store[k]]

\* a delete that leaves the entry in place
KVDeleteKeepsEntry(store, key) == store

KVDelete(store, key) == [k \in (DOMAIN store) \ {key} |-> store[k]]

\* a cookie a returning user may hold: client A approved under the current key
ApprovedCookieA ==
  addApprovedClient(<<>>, ClientA, COOKIE_ENCRYPTION_KEY).value.value

\* the same record signed under another key
MisSignedCookieA == addApprovedClient(<<>>, ClientA, <<"k", "f">>).value.value

\* a value whose last character was replaced by a "%"
UndecodableCookieA ==
  [ApprovedCookieA EXCEPT ![Len(ApprovedCookieA)] = "%"]

\* the approved-clients cookies a user agent may arrive with
InitialApprovedCookies ==
  {Undefined, ApprovedCookieA, MisSignedCookieA, UndecodableCookieA}

\* the inputs and results of one approve / tamper / check round trip; prior
\* keeps the cookie the request arrived with
ApprovalRun(stage, clientId, secret, cookie, tampered, checkSecret, verdict) ==
  [stage |-> stage, clientId |-> clientId, secret |-> secret, cookie |-> cookie,
   prior |-> cookie, tampered |-> tampered, checkSecret |-> checkSecret, verdict |-> verdict]

ApprovalIdle ==
  ApprovalRun("idle", <<>>, <<>>, Undefined, FALSE, <<>>, Returned(FALSE))

\* the inputs and results of one validateCSRFToken call
CsrfRun(stage, csrfToken, cookieHeader, result, resp) ==
  [stage |-> stage, csrfToken |-> csrfToken, cookieHeader |-> cookieHeader,
   result |-> result, resp |-> resp]

CsrfIdle == CsrfRun("idle", Undefined, <<>>, Returned(TRUE), NoResponse)

InitBroker ==
  /\ kv = <<>>
  /\ \E approvedCookie \in InitialApprovedCookies :
       jar = [a \in Agents |->
                IF a = 1 THEN [EmptyJar EXCEPT ![APPROVED_COOKIE] = approvedCookie]
                ELSE EmptyJar]
  /\ flows = <<>>
  /\ reqs = <<>>
  /\ grants = <<>>
  /\ nextUuid = 0

Init ==
  /\ InitBroker
  /\ ac = ApprovalIdle
  /\ cv = CsrfIdle

(***************************************************************************)
(* CSRF protection, state management, session binding.                      *)
(***************************************************************************)
OAuthError(statusCode, message) ==
  Thrown([statusCode |-> statusCode, message |-> message])

\* generateCSRFProtection, given the value crypto.randomUUID() returns
generateCSRFProtection(uuid) ==
  [token |-> uuid, setCookie |-> SetCookie(CSRF_COOKIE, uuid, -1)]

\* a form field that holds a File: typeof value !== "string"
FileValue == <<"[object File]">>

\* a validation that accepts every submission
validateCSRFTokenAcceptsAll(csrfToken, cookieHeader) == Returned(TRUE)

\* a validation that lets a request without the CSRF cookie through
validateCSRFTokenCookieOptional(csrfToken, cookieHeader) ==
  IF Falsy(csrfToken) \/ csrfToken = FileValue THEN OAuthError(400, "Missing CSRF token")
  ELSE LET cookieToken == parseCookies(cookieHeader)[CSRF_COOKIE] IN
       IF ~Falsy(cookieToken) /\ cookieToken # csrfToken
         THEN OAuthError(403, "CSRF token mismatch")
         ELSE Returned(TRUE)

validateCSRFToken(csrfToken, cookieHeader) ==
  IF Falsy(csrfToken) \/ csrfToken = FileValue THEN OAuthError(400, "Missing CSRF token")
  ELSE LET cookieToken == parseCookies(cookieHeader)[CSRF_COOKIE] IN
       IF Falsy(cookieToken) \/ cookieToken # csrfToken
         THEN OAuthError(403, "CSRF token mismatch")
         ELSE Returned(TRUE)

\* createOAuthState: the store after kv.put, given the fresh state token
createOAuthState(oauthReqInfo, store, stateToken) ==
  KVPut(store, KVKey(stateToken), JSONStringifyRequest(oauthReqInfo))

bindStateToSession(stateToken) ==
  SetCookie(SESSION_COOKIE, sha256(stateToken), SessionMaxAge)

ClearSessionCookie == SetCookie(SESSION_COOKIE, <<>>, 0)

\* getLineAuthorizeUrl: the URL carries the state token as its state parameter
getLineAuthorizeUrl(state) == [to |-> "line", state |-> state]

\* a redirect that sends the hash of the state token as the state parameter
redirectToLineWithHash(stateToken, headers) ==
  Response(302, "", SetCookiesOf(headers), getLineAuthorizeUrl(sha256(stateToken)))

redirectToLine(stateToken, headers) ==
  Response(302, "", SetCookiesOf(headers), getLineAuthorizeUrl(stateToken))

(***************************************************************************)
(* GET /authorize.                                                          *)
(***************************************************************************)
\* a tab: the request it opened /authorize with and the Cookie header of that
\* request, the form it was shown, how
\* the form was submitted, the state token it was redirected with, and the
\* responses to its GET and its POST
Flow(agent, info, pc, csrfToken, encodedState, stateToken, getResp, postResp) ==
  [agent |-> agent, cookieHeader |-> CookieHeaderOf(jar[agent]), info |-> info,
   pc |-> pc, csrfToken |-> csrfToken,
   encodedState |-> encodedState, submitted |-> "nothing",
   stateToken |-> stateToken, getResp |-> getResp, postResp |-> postResp]

\* a consent page that already sets an approved-clients cookie
renderApprovalDialogApproving(setCookie) ==
  Response(200, "approval dialog",
           <<setCookie, SetCookie(APPROVED_COOKIE, ApprovedCookieA, ApprovedMaxAge)>>,
           NoLocation)

\* renderApprovalDialog: 200, the CSRF cookie, the form with its hidden fields
renderApprovalDialog(setCookie) ==
  Response(200, "approval dialog", <<setCookie>>, NoLocation)

\* The user agent a opens /authorize in a new tab; parseAuthRequest gives info.
GetAuthorize(a, info) ==
  /\ NumRequests < MaxRequests
  /\ LET cookieHeader == CookieHeaderOf(jar[a])
         approved == isClientApproved(cookieHeader, info.clientId, COOKIE_ENCRYPTION_KEY)
         uuid == Uuid(nextUuid)
     IN
     IF Falsy(info.clientId) THEN
       /\ flows' = Append(flows, Flow(a, info, "failed", Undefined, AbsentField,
                                      Undefined, Text("Invalid request", 400), NoResponse))
       /\ UNCHANGED <<kv, jar, nextUuid>>
     ELSE IF ~approved.ok THEN
       \* the exception leaves the handler: Hono answers 500
       /\ flows' = Append(flows, Flow(a, info, "failed", Undefined, AbsentField,
                                      Undefined, Text("Internal Server Error", 500),
                                      NoResponse))
       /\ UNCHANGED <<kv, jar, nextUuid>>
     ELSE IF approved.value THEN
       LET sessionBindingCookie == bindStateToSession(uuid)
           resp == redirectToLine(uuid,
                     ObjectFromEntries(<< <<"set-cookie", sessionBindingCookie>> >>))
       IN /\ kv' = createOAuthState(info, kv, uuid)
          /\ nextUuid' = nextUuid + 1
          /\ jar' = [jar EXCEPT ![a] = ApplySetCookies(@, resp.setCookies)]
          /\ flows' = Append(flows, Flow(a, info, "redirected", Undefined, AbsentField,
                                         resp.location.state, resp, NoResponse))
     ELSE
       LET csrf == generateCSRFProtection(uuid)
           resp == renderApprovalDialog(csrf.setCookie)
       IN /\ nextUuid' = nextUuid + 1
          /\ jar' = [jar EXCEPT ![a] = ApplySetCookies(@, resp.setCookies)]
          /\ flows' = Append(flows, Flow(a, info, "consent", csrf.token,
                                         btoa(JSONStringifyState(info)),
                                         Undefined, resp, NoResponse))
          /\ UNCHANGED kv
  /\ UNCHANGED <<reqs, grants, ac, cv>>

(***************************************************************************)
(* POST /authorize.                                                         *)
(***************************************************************************)
\* what the submitter does to the form before sending it
PostVariants == {"asRendered", "noCsrf", "noState", "garbageState",
                 "noRequest", "noClientId", "nullState"}

SubmittedCsrf(flow, variant) ==
  IF variant = "noCsrf" THEN Undefined ELSE flow.csrfToken

SubmittedState(flow, variant) ==
  CASE variant = "noState" -> AbsentField
    [] variant = "garbageState" -> GarbageField
    [] variant = "noRequest" -> btoa(<<>>)
    [] variant = "nullState" -> btoa(JSONNull)
    [] variant = "noClientId" ->
         btoa(JSONStringifyState([flow.info EXCEPT !.clientId = Undefined]))
    [] OTHER -> flow.encodedState

\* a collapse of the two Set-Cookie headers that keeps the first one
PostRedirectHeadersFirstWins(approvedClientCookie, sessionBindingCookie) ==
  ObjectFromEntries(<< <<"set-cookie", approvedClientCookie>> >>)

\* the two Set-Cookie headers appended to a Headers object, then
\* Object.fromEntries(headers)
PostRedirectHeaders(approvedClientCookie, sessionBindingCookie) ==
  ObjectFromEntries(<< <<"set-cookie", approvedClientCookie>>,
                       <<"set-cookie", sessionBindingCookie>> >>)

\* The result of the handler: the response, the store after it, and whether
\* a state was stored.
PostFailed(resp, store) == [resp |-> resp, kv |-> store, stored |-> FALSE]

\* createOAuthState, bindStateToSession and the redirect with both cookies
PostRedirect(approvedClientCookie, oauthReqInfo, store, uuid) ==
  IF ~approvedClientCookie.ok THEN PostFailed(Text("Internal server error", 500), store)
  ELSE [resp |-> redirectToLine(uuid,
                   PostRedirectHeaders(approvedClientCookie.value,
                                       bindStateToSession(uuid))),
        kv |-> createOAuthState(oauthReqInfo, store, uuid),
        stored |-> TRUE]

\* the client id check and addApprovedClient
PostApprove(oauthReqInfo, cookieHeader, store, uuid) ==
  IF Falsy(oauthReqInfo.clientId) THEN PostFailed(Text("Invalid request", 400), store)
  ELSE PostRedirect(
         addApprovedClient(cookieHeader, oauthReqInfo.clientId, COOKIE_ENCRYPTION_KEY),
         oauthReqInfo, store, uuid)

\* state = JSON.parse(atob(encodedState)), a failure of either being caught;
\* reading state.oauthReqInfo of null throws a TypeError, which the handler's
\* outer catch answers
PostDecode(decoded, cookieHeader, store, uuid) ==
  IF ~decoded.ok THEN PostFailed(Text("Invalid state data", 400), store)
  ELSE IF decoded.value = JSONNull
    THEN PostFailed(Text("Internal server error", 500), store)
  ELSE IF ~HasMember(decoded.value, "oauthReqInfo")
    THEN PostFailed(Text("Invalid request", 400), store)
  ELSE PostApprove(JSONParseRequest(Member(decoded.value, "oauthReqInfo")),
                   cookieHeader, store, uuid)

PostValidated(csrf, encodedState, cookieHeader, store, uuid) ==
  IF ~csrf.ok
    THEN PostFailed(toResponse(csrf.value.statusCode, csrf.value.message), store)
  ELSE IF encodedState.kind = "absent"
    THEN PostFailed(Text("Missing state in form data", 400), store)
  ELSE PostDecode(atob(encodedState), cookieHeader, store, uuid)

PostAuthorizeResult(csrfToken, encodedState, cookieHeader, store, uuid) ==
  PostValidated(validateCSRFToken(csrfToken, cookieHeader), encodedState,
                cookieHeader, store, uuid)

\* The consent form of flow f is submitted with the cookies of its user agent.
PostAuthorize(f, variant) ==
  /\ NumRequests < MaxRequests
  /\ f \in 1..Len(flows)
  /\ flows[f].pc = "consent"
  /\ \E result \in {PostAuthorizeResult(SubmittedCsrf(flows[f], variant),
                                        SubmittedState(flows[f], variant),
                                        CookieHeaderOf(jar[flows[f].agent]), kv,
                                        Uuid(nextUuid))} :
        /\ kv' = result.kv
        /\ nextUuid' = IF result.stored THEN nextUuid + 1 ELSE nextUuid
        /\ jar' = [jar EXCEPT ![flows[f].agent] =
                     ApplySetCookies(@, result.resp.setCookies)]
        /\ flows' = [flows EXCEPT ![f] =
                       [@ EXCEPT !.pc = IF result.stored THEN "redirected" ELSE "failed",
                                 !.submitted = variant,
                                 !.stateToken = IF result.stored
                                                  THEN result.resp.location.state
                                                  ELSE Undefined,
                                 !.postResp = result.resp]]
  /\ UNCHANGED <<reqs, grants, ac, cv>>

(***************************************************************************)
(* GET /callback.  The handler runs from one await to the next: the checks  *)
(* of validateOAuthState before kv.get, kv.get, kv.delete and what follows  *)
(* it up to the token request, the token request, the profile request, the  *)
(* Supabase sign-in, completeAuthorization.  trace lists the steps a        *)
(* request has completed, idpCalls the fetches it has sent to LINE and what *)
(* LINE answered.                                                           *)
(***************************************************************************)
NoRequestInfo == AuthRequest(Undefined, <<>>, Undefined)

DisplayNameOf(lineUserId) == <<"f">> \o Tail(lineUserId)

\* fetchLineProfile's JSON body for the account the code stands for
ProfileOf(code) ==
  [userId |-> LineUserOf(code), displayName |-> DisplayNameOf(LineUserOf(code))]

NoProfile == [userId |-> <<>>, displayName |-> <<>>]

Callback(agent, state, code, cookieHeader, pc, trace, resp) ==
  [agent |-> agent, state |-> state, code |-> code, cookieHeader |-> cookieHeader,
   pc |-> pc, stored |-> <<>>, oauthReqInfo |-> NoRequestInfo,
   profile |-> NoProfile, supabaseUserId |-> <<>>, trace |-> trace,
   idpCalls |-> <<>>, resp |-> resp]

\* a session check that compares the cookie with the state token itself
verifySessionBindingUnhashed(stateToken, cookieHeader) ==
  IF Falsy(stateToken) THEN OAuthError(400, "Missing state parameter")
  ELSE LET sessionHash == parseCookies(cookieHeader)[SESSION_COOKIE] IN
       IF Falsy(sessionHash) THEN OAuthError(400, "Missing session cookie")
       ELSE IF sessionHash # stateToken
         THEN OAuthError(403, "Session binding mismatch")
         ELSE Returned(TRUE)

\* validateOAuthState up to its first await on the store: the state parameter
\* and the session binding
verifySessionBinding(stateToken, cookieHeader) ==
  IF Falsy(stateToken) THEN OAuthError(400, "Missing state parameter")
  ELSE LET sessionHash == parseCookies(cookieHeader)[SESSION_COOKIE] IN
       IF Falsy(sessionHash) THEN OAuthError(400, "Missing session cookie")
       ELSE IF sessionHash # sha256(stateToken)
         THEN OAuthError(403, "Session binding mismatch")
         ELSE Returned(TRUE)

\* the state tokens handed out so far (the state parameter of a redirect to LINE)
IssuedStateTokens ==
  {flows[f].stateToken : f \in {g \in 1..Len(flows) : flows[g].stateToken # Undefined}}

\* a callback that drops the stored state when the session check fails
CallbackReceiveDroppingState(a, stateToken, code) ==
  /\ NumRequests < MaxRequests
  /\ LET cookieHeader == CookieHeaderOf(jar[a])
         check == verifySessionBinding(stateToken, cookieHeader)
     IN /\ reqs' = Append(reqs,
             IF check.ok
               THEN Callback(a, stateToken, code, cookieHeader, "get", <<"verify">>,
                             NoResponse)
               ELSE Callback(a, stateToken, code, cookieHeader, "done", <<>>,
                             toResponse(check.value.statusCode, check.value.message)))
        /\ kv' = IF check.ok THEN kv ELSE KVDelete(kv, KVKey(stateToken))
  /\ UNCHANGED <<jar, flows, grants, nextUuid, ac, cv>>

\* User agent a requests /callback?code=..&state=.. with its cookies.
CallbackReceive(a, stateToken, code) ==
  /\ NumRequests < MaxRequests
  /\ LET cookieHeader == CookieHeaderOf(jar[a])
         check == verifySessionBinding(stateToken, cookieHeader)
     IN reqs' = Append(reqs,
          IF check.ok
            THEN Callback(a, stateToken, code, cookieHeader, "get", <<"verify">>,
                          NoResponse)
            ELSE Callback(a, stateToken, code, cookieHeader, "done", <<>>,
                          toResponse(check.value.statusCode, check.value.message)))
  /\ UNCHANGED <<kv, jar, flows, grants, nextUuid, ac, cv>>

\* kv.get(`oauth_state:${stateToken}`): the text, or <<>> for null
KVGet(store, key) == IF key \in DOMAIN store THEN store[key] ELSE <<>>

CallbackGet(r) ==
  /\ r \in 1..Len(reqs)
  /\ reqs[r].pc = "get"
  /\ LET stored == KVGet(kv, KVKey(reqs[r].state)) IN
     reqs' = [reqs EXCEPT ![r] =
       IF stored = <<>>
         THEN [@ EXCEPT !.pc = "done",
                        !.resp = toResponse(400, "Invalid or expired state")]
         ELSE [@ EXCEPT !.pc = "delete", !.stored = stored]]
  /\ UNCHANGED <<kv, jar, flows, grants, nextUuid, ac, cv>>

\* a callback that looks at the code parameter before it deletes the state
CallbackDeleteAfterCodeCheck(r) ==
  /\ r \in 1..Len(reqs)
  /\ reqs[r].pc = "delete"
  /\ kv' = IF Falsy(reqs[r].code) THEN kv ELSE KVDelete(kv, KVKey(reqs[r].state))
  /\ LET oauthReqInfo == JSONParseRequest(reqs[r].stored)
         consumed == [reqs[r] EXCEPT !.oauthReqInfo = oauthReqInfo,
                                     !.trace = Append(@, "consume")]
     IN reqs' = [reqs EXCEPT ![r] =
          IF JSONParseThrows(reqs[r].stored)
            THEN [@ EXCEPT !.pc = "done", !.resp = Text("Internal server error", 500)]
          ELSE IF Falsy(oauthReqInfo.clientId)
            THEN [consumed EXCEPT !.pc = "done",
                                  !.resp = Text("Invalid OAuth request data", 400)]
          ELSE IF Falsy(reqs[r].code)
            THEN [consumed EXCEPT !.pc = "done",
                                  !.resp = Text("Missing authorization code", 400)]
          ELSE [consumed EXCEPT !.pc = "exchange"]]
  /\ UNCHANGED <<jar, flows, grants, nextUuid, ac, cv>>

\* kv.delete, the return of validateOAuthState, and the handler up to the
\* request for the LINE access token
CallbackDelete(r) ==
  /\ r \in 1..Len(reqs)
  /\ reqs[r].pc = "delete"
  /\ kv' = KVDelete(kv, KVKey(reqs[r].state))
  /\ LET oauthReqInfo == JSONParseRequest(reqs[r].stored)
         consumed == [reqs[r] EXCEPT !.oauthReqInfo = oauthReqInfo,
                                     !.trace = Append(@, "consume")]
     IN reqs' = [reqs EXCEPT ![r] =
          \* JSON.parse throws: the handler's catch answers the generic 500
          IF JSONParseThrows(reqs[r].stored)
            THEN [@ EXCEPT !.pc = "done", !.resp = Text("Internal server error", 500)]
          ELSE IF Falsy(oauthReqInfo.clientId)
            THEN [consumed EXCEPT !.pc = "done",
                                  !.resp = Text("Invalid OAuth request data", 400)]
          ELSE IF Falsy(reqs[r].code)
            THEN [consumed EXCEPT !.pc = "done",
                                  !.resp = Text("Missing authorization code", 400)]
          ELSE [consumed EXCEPT !.pc = "exchange"]]
  /\ UNCHANGED <<jar, flows, grants, nextUuid, ac, cv>>

\* what LINE's token endpoint can answer
TokenOutcomes == {"ok", "notOk", "noAccessToken"}

\* one fetch sent to LINE and the kind of answer it got
IdpCall(endpoint, outcome) == [endpoint |-> endpoint, outcome |-> outcome]

\* a token request that is sent again after LINE refused it once
CallbackExchangeRetrying(r, outcome) ==
  /\ r \in 1..Len(reqs)
  /\ reqs[r].pc = "exchange"
  /\ reqs' = [reqs EXCEPT ![r] =
       CASE outcome = "notOk" /\ reqs[r].idpCalls = <<>> ->
              [@ EXCEPT !.idpCalls = Append(@, IdpCall("token", outcome))]
         [] outcome = "notOk" /\ reqs[r].idpCalls # <<>> ->
              [@ EXCEPT !.pc = "done",
                        !.idpCalls = Append(@, IdpCall("token", outcome)),
                        !.resp = Response(500, "Failed to exchange LINE authorization code",
                                          <<>>, NoLocation)]
         [] outcome = "noAccessToken" ->
              [@ EXCEPT !.pc = "done",
                        !.idpCalls = Append(@, IdpCall("token", outcome)),
                        !.resp = Response(500, "Missing access token from LINE",
                                          <<>>, NoLocation)]
         [] OTHER -> [@ EXCEPT !.pc = "profile",
                               !.idpCalls = Append(@, IdpCall("token", outcome)),
                               !.trace = Append(@, "exchange")]]
  /\ UNCHANGED <<kv, jar, flows, grants, nextUuid, ac, cv>>

\* fetchLineToken, and its error response returned as it is
CallbackExchange(r, outcome) ==
  /\ r \in 1..Len(reqs)
  /\ reqs[r].pc = "exchange"
  /\ reqs' = [reqs EXCEPT ![r] =
       CASE outcome = "notOk" ->
              [@ EXCEPT !.pc = "done",
                        !.idpCalls = Append(@, IdpCall("token", outcome)),
                        !.resp = Response(500, "Failed to exchange LINE authorization code",
                                          <<>>, NoLocation)]
         [] outcome = "noAccessToken" ->
              [@ EXCEPT !.pc = "done",
                        !.idpCalls = Append(@, IdpCall("token", outcome)),
                        !.resp = Response(500, "Missing access token from LINE",
                                          <<>>, NoLocation)]
         [] OTHER -> [@ EXCEPT !.pc = "profile",
                               !.idpCalls = Append(@, IdpCall("token", outcome)),
                               !.trace = Append(@, "exchange")]]
  /\ UNCHANGED <<kv, jar, flows, grants, nextUuid, ac, cv>>

\* fetchLineProfile: the profile, or null when the response is not ok
CallbackProfile(r, ok) ==
  /\ r \in 1..Len(reqs)
  /\ reqs[r].pc = "profile"
  /\ reqs' = [reqs EXCEPT ![r] =
       IF ok THEN [@ EXCEPT !.pc = "signIn", !.profile = ProfileOf(reqs[r].code),
                            !.idpCalls = Append(@, IdpCall("profile", "ok")),
                            !.trace = Append(@, "profile")]
       ELSE [@ EXCEPT !.pc = "done",
                      !.idpCalls = Append(@, IdpCall("profile", "notOk")),
                      !.resp = Text("Failed to fetch LINE profile", 500)]]
  /\ UNCHANGED <<kv, jar, flows, grants, nextUuid, ac, cv>>

\* a sign-in step whose failure is answered as an unexpected error
CallbackSignInGenericFailure(r, ok) ==
  /\ r \in 1..Len(reqs)
  /\ reqs[r].pc = "signIn"
  /\ reqs' = [reqs EXCEPT ![r] =
       IF ok THEN [@ EXCEPT !.pc = "issue",
                            !.supabaseUserId = SupabaseUserOf(reqs[r].profile.userId),
                            !.trace = Append(@, "identity")]
       ELSE [@ EXCEPT !.pc = "done", !.resp = Text("Internal server error", 500)]]
  /\ UNCHANGED <<kv, jar, flows, grants, nextUuid, ac, cv>>

\* a sign-in step whose failure does not stop the callback
CallbackSignInUnchecked(r, ok) ==
  /\ r \in 1..Len(reqs)
  /\ reqs[r].pc = "signIn"
  /\ reqs' = [reqs EXCEPT ![r] =
       IF ok THEN [@ EXCEPT !.pc = "issue",
                            !.supabaseUserId = SupabaseUserOf(reqs[r].profile.userId),
                            !.trace = Append(@, "identity")]
       ELSE [@ EXCEPT !.pc = "issue"]]
  /\ UNCHANGED <<kv, jar, flows, grants, nextUuid, ac, cv>>

\* signInWithLineId: the Supabase user, or null when signInWithPassword fails
CallbackSignIn(r, ok) ==
  /\ r \in 1..Len(reqs)
  /\ reqs[r].pc = "signIn"
  /\ reqs' = [reqs EXCEPT ![r] =
       IF ok THEN [@ EXCEPT !.pc = "issue",
                            !.supabaseUserId = SupabaseUserOf(reqs[r].profile.userId),
                            !.trace = Append(@, "identity")]
       ELSE [@ EXCEPT !.pc = "done",
                      !.resp = Response(403,
                                 "Account not found. Please register via the app first.",
                                 <<>>, NoLocation)]]
  /\ UNCHANGED <<kv, jar, flows, grants, nextUuid, ac, cv>>

\* a call that names the Supabase account as the subject
GrantSubjectIsAccount(req) ==
  [request |-> req.oauthReqInfo,
   userId |-> req.supabaseUserId,
   label |-> req.profile.displayName,
   scope |-> req.oauthReqInfo.scope,
   props |-> [lineUserId |-> req.profile.userId,
              supabaseUserId |-> req.supabaseUserId,
              displayName |-> req.profile.displayName],
   stateToken |-> req.state]

\* the arguments of c.env.OAUTH_PROVIDER.completeAuthorization
Grant(req) ==
  [request |-> req.oauthReqInfo,
   userId |-> req.profile.userId,
   label |-> req.profile.displayName,
   scope |-> req.oauthReqInfo.scope,
   props |-> [lineUserId |-> req.profile.userId,
              supabaseUserId |-> req.supabaseUserId,
              displayName |-> req.profile.displayName],
   stateToken |-> req.state]

\* the final response: 302 to redirectTo with the cookie-clearing header
CallbackSuccessResponse(clearSessionCookie) ==
  Response(302, "", <<clearSessionCookie>>, [to |-> "client", state |-> <<>>])

\* completeAuthorization and the final redirect
CallbackIssue(r) ==
  /\ r \in 1..Len(reqs)
  /\ reqs[r].pc = "issue"
  /\ grants' = Append(grants, Grant(reqs[r]))
  /\ LET resp == CallbackSuccessResponse(ClearSessionCookie) IN
     /\ reqs' = [reqs EXCEPT ![r] = [@ EXCEPT !.pc = "done", !.resp = resp,
                                              !.trace = Append(@, "issue")]]
     /\ jar' = [jar EXCEPT ![reqs[r].agent] = ApplySetCookies(@, resp.setCookies)]
  /\ UNCHANGED <<kv, flows, nextUuid, ac, cv>>

\* a store that never drops an entry on its own
ExpireNothing(key) ==
  /\ key \in DOMAIN kv
  /\ UNCHANGED vars

\* The TTL of a stored state runs out (expirationTtl).
Expire(key) ==
  /\ key \in DOMAIN kv
  /\ kv' = KVDelete(kv, key)
  /\ UNCHANGED <<jar, flows, reqs, grants, nextUuid, ac, cv>>

Next ==
  \/ \E a \in Agents, info \in AuthRequests : GetAuthorize(a, info)
  \/ \E f \in 1..MaxRequests, variant \in PostVariants : PostAuthorize(f, variant)
  \/ \E a \in Agents, stateToken \in IssuedStateTokens \cup {Undefined} :
       \E code \in {CodeOf(a), Undefined} : CallbackReceive(a, stateToken, code)
  \/ \E r \in 1..MaxRequests : CallbackGet(r)
  \/ \E r \in 1..MaxRequests : CallbackDelete(r)
  \/ \E r \in 1..MaxRequests, outcome \in TokenOutcomes : CallbackExchange(r, outcome)
  \/ \E r \in 1..MaxRequests, ok \in BOOLEAN : CallbackProfile(r, ok)
  \/ \E r \in 1..MaxRequests, ok \in BOOLEAN : CallbackSignIn(r, ok)
  \/ \E r \in 1..MaxRequests : CallbackIssue(r)
  \/ \E key \in DOMAIN kv : Expire(key)

Spec == Init /\ [][Next]_vars

TypeOK ==
  /\ nextUuid \in 0..MaxRequests
  /\ NumRequests <= MaxRequests
  /\ Len(grants) <= Len(reqs)

(***************************************************************************)
(* Properties.                                                              *)
(***************************************************************************)
Requests == 1..Len(reqs)
Flows == 1..Len(flows)

\* request r has completed the step
Completed(r, step) == Includes(reqs[r].trace, step)

\* the session cookie request r carried
SessionCookieOf(r) == parseCookies(reqs[r].cookieHeader)[SESSION_COOKIE]

\* the digests of the values the model compares are pairwise distinct
DigestsCollisionFree ==
  \A m, n \in 0..MaxRequests : m # n => sha256(Uuid(m)) # sha256(Uuid(n))

\* C1: of the callbacks that carry one state token, at most one gets past
\* state validation (validateOAuthState returns) and at most one
\* completeAuthorization call is made for that token.
C1_AtMostOneCallbackPerState ==
  \A token \in IssuedStateTokens :
    /\ Cardinality({r \in Requests : reqs[r].state = token /\ Completed(r, "consume")}) <= 1
    /\ Cardinality({g \in 1..Len(grants) : grants[g].stateToken = token}) <= 1

\* request r is the callback of a flow of its own user agent
OwnFlowCallback(r) ==
  /\ ~Falsy(reqs[r].state)
  /\ \E f \in Flows : flows[f].agent = reqs[r].agent /\ flows[f].stateToken = reqs[r].state

\* user agent a has started at most one flow
SingleFlowAgent(a) == Cardinality({f \in Flows : flows[f].agent = a}) <= 1

\* the independence that does hold: the same, for a user agent with one flow
SingleFlowCallbackVerifies ==
  \A r \in Requests :
    ( /\ OwnFlowCallback(r)
      /\ SingleFlowAgent(reqs[r].agent)
      /\ \A q \in 1..(r - 1) : reqs[q].agent # reqs[r].agent )
      => Completed(r, "verify")

\* C2: flows are independent, also two flows in tabs of one user agent: the
\* first callback a user agent makes, for the state token of one of its own
\* flows, passes the session-binding verification whatever other flows exist.
C2_FlowsIndependent ==
  \A r \in Requests :
    (OwnFlowCallback(r) /\ \A q \in 1..(r - 1) : reqs[q].agent # reqs[r].agent)
      => Completed(r, "verify")

\* C3 (value): what validateOAuthState returns is the pending authorization
\* that was saved under the state token.
ConsumeReturnsSaved ==
  \A r \in Requests :
    Completed(r, "consume")
      => \E f \in Flows : /\ flows[f].stateToken = reqs[r].state
                          /\ reqs[r].oauthReqInfo = flows[f].info

\* C3 (single use): a kv.get made for a state token that a callback has
\* already consumed fails with 400 "Invalid or expired state".
SecondConsumeFails ==
  \A r \in 1..MaxRequests :
    ( /\ r \in Requests
      /\ reqs[r].pc = "get"
      /\ reqs'[r].pc # "get"
      /\ \E q \in Requests : /\ q # r
                             /\ reqs[q].state = reqs[r].state
                             /\ Completed(q, "consume") )
      => /\ reqs'[r].pc = "done"
         /\ reqs'[r].resp = toResponse(400, "Invalid or expired state")

\* C3: save then consume returns the saved value, and a second consume of the
\* same token fails with the state-not-found error.
C3_SaveConsumeRoundTrip ==
  [](ConsumeReturnsSaved) /\ [][SecondConsumeFails]_vars

C3_Witness ==
  \E r, q \in Requests :
    /\ q # r
    /\ reqs[q].state = reqs[r].state
    /\ Completed(q, "consume")
    /\ reqs[q].oauthReqInfo.codeChallenge # Undefined
    /\ Completed(r, "verify")
    /\ reqs[r].resp = toResponse(400, "Invalid or expired state")

\* C4: a callback for state token S passes the session verification when its
\* session cookie is the one bindStateToSession(S) makes, ends with 403
\* "Session binding mismatch" when the cookie is the one made for another
\* state token, and ends with 400 "Missing session cookie" without a cookie.
C4_SessionVerification ==
  \A r \in Requests :
    ~Falsy(reqs[r].state) =>
      /\ SessionCookieOf(r) = bindStateToSession(reqs[r].state).value
           => Completed(r, "verify")
      /\ (\E n \in 0..MaxRequests :
            /\ Uuid(n) # reqs[r].state
            /\ SessionCookieOf(r) = bindStateToSession(Uuid(n)).value)
           => /\ reqs[r].pc = "done"
              /\ reqs[r].resp = toResponse(403, "Session binding mismatch")
      /\ Falsy(SessionCookieOf(r))
           => /\ reqs[r].pc = "done"
              /\ reqs[r].resp = toResponse(400, "Missing session cookie")

C4_Witness ==
  \E r \in Requests :
    /\ ~Falsy(reqs[r].state)
    /\ ~Falsy(SessionCookieOf(r))
    /\ SessionCookieOf(r) # bindStateToSession(reqs[r].state).value
    /\ reqs[r].resp = toResponse(403, "Session binding mismatch")

StepOrder == <<"verify", "consume", "exchange", "profile", "identity", "issue">>

IsPrefix(s, t) == Len(s) <= Len(t) /\ SubSeq(t, 1, Len(s)) = s

\* C5: completeAuthorization is called only by a request that has, in this
\* order, verified the session binding for its state token, consumed the
\* pending authorization, exchanged a present code, fetched the profile and
\* resolved the account; a request in which a step failed issues nothing.
C5_IssuanceOnlyAfterAllSteps ==
  /\ \A r \in Requests :
       /\ IsPrefix(reqs[r].trace, StepOrder)
       /\ Completed(r, "verify") => SessionCookieOf(r) = sha256(reqs[r].state)
       /\ Completed(r, "exchange") => ~Falsy(reqs[r].code)
       /\ (reqs[r].pc = "done" /\ ~Completed(r, "issue")) => reqs[r].resp.status # 302
  /\ Len(grants) = Cardinality({r \in Requests : Completed(r, "issue")})

C5_Witness ==
  \E r \in Requests : Completed(r, "issue") /\ Len(grants) = 1

\* C6: every callback response produced after the state validation has
\* succeeded, a success or a failure, carries the Set-Cookie that clears the
\* session-binding cookie.
C6_ClearCookieAfterValidation ==
  \A r \in Requests :
    (reqs[r].pc = "done" /\ Completed(r, "consume"))
      => Includes(reqs[r].resp.setCookies, ClearSessionCookie)

\* C7: a callback whose session cookie is not the hash of its state token is
\* answered 403 "Session binding mismatch" with the Set-Cookie that clears the
\* session cookie, and every callback that fails the session / state
\* validation clears the session cookie.
C7_ValidationFailureClearsCookie ==
  \A r \in Requests :
    (reqs[r].pc = "done" /\ ~Completed(r, "consume"))
      => /\ Includes(reqs[r].resp.setCookies, ClearSessionCookie)
         /\ ( /\ ~Falsy(reqs[r].state)
              /\ ~Falsy(SessionCookieOf(r))
              /\ SessionCookieOf(r) # sha256(reqs[r].state) )
              => /\ reqs[r].resp.status = 403
                 /\ reqs[r].resp.body = "Session binding mismatch"

\* the response carries a Set-Cookie for the cookie of that name
SetsCookie(resp, name) ==
  \E i \in 1..Len(resp.setCookies) : resp.setCookies[i].name = name

\* C8: a successful POST /authorize answers 302 to the LINE authorize URL and
\* carries both the approval cookie and the session-binding cookie.
C8_RedirectCarriesBothCookies ==
  \A f \in Flows :
    flows[f].postResp.status = 302
      => /\ flows[f].postResp.location.to = "line"
         /\ SetsCookie(flows[f].postResp, APPROVED_COOKIE)
         /\ SetsCookie(flows[f].postResp, SESSION_COOKIE)

\* the failures of the calls the broker makes to the store, LINE and Supabase
ExternalFailures ==
  { "Invalid or expired state", "Failed to exchange LINE authorization code",
    "Missing access token from LINE", "Failed to fetch LINE profile",
    "Account not found. Please register via the app first." }

\* flow f is the one flow of a user agent that came without cookies
HonestNewFlow(f) ==
  /\ SingleFlowAgent(flows[f].agent)
  /\ flows[f].cookieHeader = <<>>
  /\ ~Falsy(flows[f].info.clientId)

\* request r is the return of flow f from LINE: the first callback of the
\* flow's user agent, with a code and the flow's state token
HonestCallback(f, r) ==
  /\ reqs[r].agent = flows[f].agent
  /\ \A q \in 1..(r - 1) : reqs[q].agent # reqs[r].agent
  /\ ~Falsy(reqs[r].code)
  /\ ~Falsy(flows[f].stateToken)
  /\ reqs[r].state = flows[f].stateToken

\* C9: an honest new user agent is shown the consent form, is redirected to
\* LINE when it submits the form as rendered with the cookies it was given,
\* and its callback ends with completeAuthorization and a 302 to the client
\* unless a call to the store, LINE or Supabase fails.
C9_HonestFlowReachesIssuance ==
  \A f \in Flows :
    HonestNewFlow(f) =>
      /\ flows[f].getResp.status = 200
      /\ flows[f].submitted = "asRendered"
           => /\ flows[f].postResp.status = 302
              /\ flows[f].postResp.location = getLineAuthorizeUrl(flows[f].stateToken)
      /\ \A r \in Requests :
           (HonestCallback(f, r) /\ reqs[r].pc = "done")
             => \/ reqs[r].resp.body \in ExternalFailures
                \/ /\ reqs[r].resp.status = 302
                   /\ reqs[r].resp.location.to = "client"
                   /\ \E g \in 1..Len(grants) :
                        /\ grants[g].stateToken = reqs[r].state
                        /\ grants[g].request = flows[f].info

C9_Witness ==
  \E f \in Flows, r \in Requests :
    /\ HonestNewFlow(f)
    /\ flows[f].submitted = "asRendered"
    /\ HonestCallback(f, r)
    /\ reqs[r].resp.status = 302
    /\ Len(grants) = 1

(***************************************************************************)
(* The approval cache on its own: addApprovedClient for a client id under a *)
(* secret, the returned cookie stored by the browser, optionally one        *)
(* character of its signature changed, then isClientApproved on a request   *)
(* carrying it.                                                             *)
(***************************************************************************)
ClientPiped == <<"a", "|", "b">>

ApprovalClientIds == {ClientA, ClientB, ClientPiped}

ApprovalSecrets == {COOKIE_ENCRYPTION_KEY, <<"k", "f">>, <<"x">>}

\* the cookie value for a text signed under the secret
SignedText(data, secret) ==
  encodeURIComponent(data \o <<"|">> \o signData(data, secret))

\* cookie values decodeURIComponent rejects: a "%" with no two hex digits
\* after it, an escape that is no UTF-8
UndecodableCookies == { <<"a", "%">>, <<"%", "g", "0">>, <<"%", "f", "f">> }

\* values without a "|" after decoding
NoSeparatorCookies == { <<"a", "b">>, <<"%", "5", "B", "%", "5", "D">> }

\* records signed under a secret other than the one given
WrongSignatureCookies(secret) ==
  { SignedText(JSONStringifyList(<<clientId>>), other) :
      clientId \in ApprovalClientIds, other \in ApprovalSecrets \ {secret} }

\* texts that are no JSON, correctly signed under the secret
SignedNonJSONCookies(secret) ==
  { SignedText(<<"a">>, secret), SignedText(<<"[", "\"", "a">>, secret) }

\* the cookie values that fail to parse or to verify under the secret
BadCookies(secret) ==
  UndecodableCookies \cup NoSeparatorCookies \cup WrongSignatureCookies(secret)
  \cup SignedNonJSONCookies(secret)

\* the approved-clients cookies a request may already carry: none, a record
\* signed under the secret, and the values that fail to parse or to verify
PriorCookies(secret) ==
  { Undefined,
    addApprovedClient(<<>>, ClientB, secret).value.value,
    addApprovedClient(<<>>, ClientPiped, <<"k", "f">>).value.value,
    SignedText(JSONStringifyList(<<ClientB, ClientA>>), secret),
    SignedText(JSONStringifyList(<<ClientPiped, ClientB>>), secret) }
  \cup BadCookies(secret)

ApprovedHeader(cookie) ==
  IF cookie = Undefined THEN <<>> ELSE << <<APPROVED_COOKIE, cookie>> >>

ApprovalInit ==
  /\ InitBroker
  /\ \E clientId \in ApprovalClientIds, secret \in ApprovalSecrets :
       \E prior \in PriorCookies(secret) :
         ac = ApprovalRun("input", clientId, secret, prior, FALSE, <<>>, Returned(FALSE))
  /\ cv = CsrfIdle

\* addApprovedClient on the request, and the browser storing the cookie
Approve ==
  /\ ac.stage = "input"
  /\ \E result \in {addApprovedClient(ApprovedHeader(ac.cookie), ac.clientId, ac.secret)} :
       ac' = IF result.ok
               THEN [ac EXCEPT !.stage = "approved", !.cookie = result.value.value]
               ELSE [ac EXCEPT !.stage = "threw"]
  /\ UNCHANGED <<kv, jar, flows, reqs, grants, nextUuid, cv>>

\* isClientApproved on the request as it arrived
CheckPrior ==
  /\ ac.stage = "input"
  /\ ac' = [ac EXCEPT !.stage = "priorChecked", !.checkSecret = ac.secret,
                      !.verdict = isClientApproved(ApprovedHeader(ac.cookie),
                                                   ac.clientId, ac.secret)]
  /\ UNCHANGED <<kv, jar, flows, reqs, grants, nextUuid, cv>>

\* the positions of the cookie value that hold the signature: what follows
\* the last escaped "|"
SignaturePositions(cookie) == {Len(cookie) - 1, Len(cookie)}

\* the characters a changed signature position may hold: the hex digits, "%"
TamperChars == {LowerHex[d] : d \in 1..16} \cup {"%"}

\* one character of the signature is replaced by another one
Tamper(i, c) ==
  /\ ac.stage = "approved"
  /\ ~ac.tampered
  /\ i \in SignaturePositions(ac.cookie)
  /\ c # ac.cookie[i]
  /\ ac' = [ac EXCEPT !.cookie = [ac.cookie EXCEPT ![i] = c], !.tampered = TRUE]
  /\ UNCHANGED <<kv, jar, flows, reqs, grants, nextUuid, cv>>

\* isClientApproved on a request carrying the cookie, under checkSecret
Check(checkSecret) ==
  /\ ac.stage = "approved"
  /\ ac' = [ac EXCEPT !.stage = "checked", !.checkSecret = checkSecret,
                      !.verdict = isClientApproved(ApprovedHeader(ac.cookie),
                                                   ac.clientId, checkSecret)]
  /\ UNCHANGED <<kv, jar, flows, reqs, grants, nextUuid, cv>>

ApprovalNext ==
  \/ Approve
  \/ CheckPrior
  \/ \E i \in SignaturePositions(ac.cookie), c \in TamperChars : Tamper(i, c)
  \/ \E checkSecret \in ApprovalSecrets : Check(checkSecret)

ApprovalSpec == ApprovalInit /\ [][ApprovalNext]_vars

\* the secrets of the model give distinct signatures for the same data
SecretsCollisionFree ==
  \A s1, s2 \in ApprovalSecrets :
    s1 # s2 => signData(<<"[", "]">>, s1) # signData(<<"[", "]">>, s2)

\* C10: a request carrying the cookie addApprovedClient(clientId, secret)
\* returned makes isClientApproved(clientId, secret) true; with the signature
\* part of the cookie changed, or under a different secret, it is false.
C10_ApproveThenIsApproved ==
  ac.stage = "checked" =>
    /\ ac.verdict.ok
    /\ (~ac.tampered /\ ac.checkSecret = ac.secret) => ac.verdict.value
    /\ (ac.tampered /\ ac.checkSecret = ac.secret) => ~ac.verdict.value
    /\ (~ac.tampered /\ ac.checkSecret # ac.secret) => ~ac.verdict.value

\* what does hold: a cookie is never accepted after its signature changed or
\* under another secret, and the untampered one is accepted under its secret
ApprovedOnlyWhenVerified ==
  ac.stage = "checked" =>
    /\ (~ac.tampered /\ ac.checkSecret = ac.secret) => ac.verdict.ok /\ ac.verdict.value
    /\ (ac.tampered /\ ac.checkSecret = ac.secret) => ~(ac.verdict.ok /\ ac.verdict.value)
    /\ (~ac.tampered /\ ac.checkSecret # ac.secret) => ~(ac.verdict.ok /\ ac.verdict.value)

(***************************************************************************)
(* validateCSRFToken on its own: a csrf_token form field and a Cookie       *)
(* header, and the answer POST /authorize gives when the validation throws. *)
(***************************************************************************)
\* formData.get("csrf_token"): null, "", a File, or a string
SubmittedTokens ==
  {Undefined, <<>>, FileValue, Uuid(0), Uuid(1), Uuid(2), <<"u">>, <<"u", "0", "0">>}

\* the Cookie headers of the request: each cookie name at most once
CsrfCookieHeaders ==
  { <<>>,
    << <<CSRF_COOKIE, Uuid(0)>> >>,
    << <<CSRF_COOKIE, Uuid(1)>> >>,
    << <<CSRF_COOKIE, <<>> >> >>,
    << <<SESSION_COOKIE, Uuid(0)>> >>,
    << <<SESSION_COOKIE, Uuid(1)>>, <<CSRF_COOKIE, Uuid(0)>> >>,
    << <<CSRF_COOKIE, <<"u">> >>, <<APPROVED_COOKIE, Uuid(0)>> >> }

CsrfInit ==
  /\ InitBroker
  /\ ac = ApprovalIdle
  /\ \E csrfToken \in SubmittedTokens, cookieHeader \in CsrfCookieHeaders :
       cv = CsrfRun("input", csrfToken, cookieHeader, Returned(TRUE), NoResponse)

\* validateCSRFToken(formData, request) inside the try of POST /authorize; an
\* OAuthError is answered with error.toResponse()
ValidateCsrf ==
  /\ cv.stage = "input"
  /\ \E result \in {validateCSRFToken(cv.csrfToken, cv.cookieHeader)} :
       cv' = [cv EXCEPT !.stage = "validated", !.result = result,
                        !.resp = IF result.ok THEN NoResponse
                                 ELSE toResponse(result.value.statusCode,
                                                 result.value.message)]
  /\ UNCHANGED <<kv, jar, flows, reqs, grants, nextUuid, ac>>

CsrfNext == ValidateCsrf

CsrfSpec == CsrfInit /\ [][CsrfNext]_vars

\* the value the request's Cookie header gives the cookie, Undefined without it
CookieValueIn(cookieHeader, name) ==
  IF \E i \in 1..Len(cookieHeader) : cookieHeader[i][1] = name
    THEN cookieHeader[CHOOSE i \in 1..Len(cookieHeader) : cookieHeader[i][1] = name][2]
    ELSE Undefined

\* the submitted field is a string with at least one character
NonEmptyString(v) == v # Undefined /\ v # FileValue /\ v # <<>>

\* C11: validateCSRFToken succeeds exactly when the submitted csrf_token is a
\* non-empty string equal to the value of the __Host-csrf cookie; an empty or
\* absent submission, an absent cookie and any difference fail.
C11_CsrfValidIffEqual ==
  cv.stage = "validated" =>
    (cv.result.ok <=>
       /\ NonEmptyString(cv.csrfToken)
       /\ CookieValueIn(cv.cookieHeader, CSRF_COOKIE) = cv.csrfToken)

C11_Witness ==
  /\ cv.stage = "validated"
  /\ cv.result.ok
  /\ Len(cv.cookieHeader) = 2

C11_WitnessFails ==
  /\ cv.stage = "validated"
  /\ ~cv.result.ok
  /\ NonEmptyString(cv.csrfToken)
  /\ CookieValueIn(cv.cookieHeader, CSRF_COOKIE) = Undefined

\* the answers for a missing and for a mismatched token
CsrfMissing == toResponse(400, "Missing CSRF token")
CsrfMismatch == toResponse(403, "CSRF token mismatch")

\* C12: the validation fails as missing when the submitted token is absent or
\* the CSRF cookie is absent, and as mismatch only when both are there and
\* differ.
C12_CsrfMissingVersusMismatch ==
  cv.stage = "validated" =>
    LET cookieToken == CookieValueIn(cv.cookieHeader, CSRF_COOKIE) IN
    /\ (cv.csrfToken = Undefined \/ cookieToken = Undefined) => cv.resp = CsrfMissing
    /\ cv.resp = CsrfMismatch
         => /\ cv.csrfToken # Undefined
            /\ cookieToken # Undefined
            /\ cookieToken # cv.csrfToken

(***************************************************************************)
(* GET /authorize: the fast path and the consent path.                      *)
(***************************************************************************)
\* the lists of client ids a record of the model may hold
ClientLists ==
  { <<>>, <<ClientA>>, <<ClientB>>, <<ClientA, ClientB>>, <<ClientB, ClientA>> }

\* the cookie value that holds the list, signed under the secret
SignedRecord(list, secret) ==
  encodeURIComponent(JSONStringifyList(list) \o <<"|">>
                     \o signData(JSONStringifyList(list), secret))

\* the Cookie header carries a record signed under the broker's key that
\* lists the client id
InValidlySignedRecord(cookieHeader, clientId) ==
  \E list \in ClientLists :
    /\ Includes(list, clientId)
    /\ CookieValueIn(cookieHeader, APPROVED_COOKIE)
         = SignedRecord(list, COOKIE_ENCRYPTION_KEY)

\* a step that serves a GET /authorize: one more flow
ServesGetAuthorize == Len(flows') = Len(flows) + 1

NewFlow == flows'[Len(flows')]

\* the answer to a GET /authorize of an approved client: 302 to LINE with a
\* fresh state token, the request stored under it, the session cookie for it
FastPathStep ==
  LET resp == NewFlow.getResp
      stateToken == resp.location.state
  IN /\ resp.status = 302
     /\ resp.location = getLineAuthorizeUrl(stateToken)
     /\ stateToken \notin IssuedStateTokens
     /\ KVKey(stateToken) \notin DOMAIN kv
     /\ kv' = KVPut(kv, KVKey(stateToken), JSONStringifyRequest(NewFlow.info))
     /\ resp.setCookies = <<SetCookie(SESSION_COOKIE, sha256(stateToken), SessionMaxAge)>>

\* the answer to a GET /authorize of a client that is not approved: the
\* consent page and a CSRF cookie
ConsentPathStep ==
  LET resp == NewFlow.getResp
  IN /\ resp.status = 200
     /\ resp.body = "approval dialog"
     /\ \E i \in 1..Len(resp.setCookies) :
          /\ resp.setCookies[i].name = CSRF_COOKIE
          /\ resp.setCookies[i].value = NewFlow.csrfToken
     /\ ~SetsCookie(resp, SESSION_COOKIE)

C13_Step ==
  (ServesGetAuthorize /\ ~Falsy(NewFlow.info.clientId)) =>
    IF InValidlySignedRecord(NewFlow.cookieHeader, NewFlow.info.clientId)
      THEN FastPathStep
      ELSE ConsentPathStep

\* C13: GET /authorize for a client id in a validly signed approved-clients
\* cookie answers 302 to the LINE authorize URL, having stored the request
\* under a fresh state token and set the session cookie for that token; for
\* a client id not in a validly signed record it answers 200 with the consent
\* page and a CSRF cookie.
C13_ApprovedClientSkipsConsent == [][C13_Step]_vars

\* the approved-clients cookie of the header, if any, is one
\* decodeURIComponent accepts
DecodableApprovedCookie(cookieHeader) ==
  \/ CookieValueIn(cookieHeader, APPROVED_COOKIE) = Undefined
  \/ decodeURIComponent(CookieValueIn(cookieHeader, APPROVED_COOKIE)).ok

\* what does hold: the two answers are as described whenever the cookie can
\* be percent-decoded
GetAuthorizeWhenDecodable ==
  [][(ServesGetAuthorize /\ DecodableApprovedCookie(NewFlow.cookieHeader)) => C13_Step]_vars

(***************************************************************************)
(* When the pending authorization reaches the store.                        *)
(***************************************************************************)
\* a step that serves the POST /authorize of flow f
ServesPostAuthorize(f) ==
  flows[f].submitted = "nothing" /\ flows'[f].submitted # "nothing"

\* the form of flow f arrives with the token it was rendered with, and the
\* user agent's CSRF cookie holds that token
PassesCsrf(f) ==
  /\ flows'[f].submitted # "noCsrf"
  /\ NonEmptyString(flows[f].csrfToken)
  /\ jar[flows[f].agent][CSRF_COOKIE] = flows[f].csrfToken

C14_Step ==
  /\ (ServesGetAuthorize /\ NewFlow.getResp.status = 200) => kv' = kv
  /\ \A key \in (DOMAIN kv') \ (DOMAIN kv) :
       \/ /\ ServesGetAuthorize
          /\ NewFlow.getResp.status = 302
          /\ key = KVKey(NewFlow.stateToken)
       \/ \E f \in Flows :
            /\ ServesPostAuthorize(f)
            /\ flows[f].getResp.status = 200
            /\ PassesCsrf(f)
            /\ key = KVKey(flows'[f].stateToken)

\* C14: the consent path of GET /authorize leaves the store unchanged; the
\* pending authorization of a client that is not approved is written to the
\* store only by a POST /authorize that passed the CSRF validation.
C14_ConsentPathLeavesStore == [][C14_Step]_vars

C14_Witness ==
  \E f \in Flows :
    /\ flows[f].getResp.status = 200
    /\ flows[f].postResp.status = 302
    /\ KVKey(flows[f].stateToken) \in DOMAIN kv
    /\ \E g \in Flows : g # f /\ flows[g].pc = "consent"

(***************************************************************************)
(* The account that is not linked.                                          *)
(***************************************************************************)
AccountNotLinked ==
  Response(403, "Account not found. Please register via the app first.",
           <<>>, NoLocation)

\* request r leaves the identity exchange without an account
SignInFoundNoAccount(r) ==
  /\ reqs[r].pc = "signIn"
  /\ reqs'[r].pc # "signIn"
  /\ ~\E i \in 1..Len(reqs'[r].trace) : reqs'[r].trace[i] = "identity"

C15_Step ==
  \A r \in Requests :
    SignInFoundNoAccount(r) =>
      /\ reqs[r].trace = <<"verify", "consume", "exchange", "profile">>
      /\ reqs'[r].pc = "done"
      /\ reqs'[r].resp = AccountNotLinked
      /\ grants' = grants

\* a request answered that way made no completeAuthorization call: every
\* grant belongs to a request that completed the issue step
NotLinkedNeverIssues ==
  /\ \A r \in Requests : reqs[r].resp = AccountNotLinked => ~Completed(r, "issue")
  /\ Len(grants) = Cardinality({r \in Requests : Completed(r, "issue")})

\* C15: a callback that passed validation, code exchange and profile fetch
\* and whose identity exchange finds no account is answered 403 "Account not
\* found. Please register via the app first." and completeAuthorization is
\* not called.
C15_NotLinkedIs403NoToken == [][C15_Step]_vars /\ []NotLinkedNeverIssues

C15_Witness ==
  \E r \in Requests :
    /\ reqs[r].pc = "done"
    /\ reqs[r].resp = AccountNotLinked
    /\ reqs[r].trace = <<"verify", "consume", "exchange", "profile">>
    /\ grants = <<>>

(***************************************************************************)
(* The store as the callback finds it.  StoreSpec starts after one          *)
(* GET /authorize of the approved client was redirected to LINE, with any   *)
(* text under the state token's key: what createOAuthState wrote, or a text *)
(* that is not complete JSON.                                               *)
(***************************************************************************)
RedirectedRequest == AuthRequest(ClientA, <<<<"a">>, <<"b">>>>, <<"c">>)

\* a stored text cut short inside the client id, and one cut inside the scope
CorruptTexts ==
  { << <<"clientId", <<"\"", "a">> >>, <<"scope", <<"[", "]">> >> >>,
    << <<"clientId", Quote(ClientA)>>, <<"scope", <<"[", "\"", "a">> >> >> }

StoredTexts ==
  {JSONStringifyRequest(info) : info \in AuthRequests} \cup CorruptTexts

StoreInit ==
  /\ \E text \in StoredTexts : kv = KVPut(<<>>, KVKey(Uuid(0)), text)
  /\ jar = [a \in Agents |->
              IF a = 1 THEN [EmptyJar EXCEPT ![APPROVED_COOKIE] = ApprovedCookieA,
                                             ![SESSION_COOKIE] = sha256(Uuid(0))]
              ELSE EmptyJar]
  /\ flows = << [agent |-> 1,
                 cookieHeader |-> << <<APPROVED_COOKIE, ApprovedCookieA>> >>,
                 info |-> RedirectedRequest, pc |-> "redirected",
                 csrfToken |-> Undefined, encodedState |-> AbsentField,
                 submitted |-> "nothing", stateToken |-> Uuid(0),
                 getResp |-> redirectToLine(Uuid(0),
                               ObjectFromEntries(
                                 << <<"set-cookie", bindStateToSession(Uuid(0))>> >>)),
                 postResp |-> NoResponse] >>
  /\ reqs = <<>>
  /\ grants = <<>>
  /\ nextUuid = 1
  /\ ac = ApprovalIdle
  /\ cv = CsrfIdle

StoreSpec == StoreInit /\ [][Next]_vars

\* request r read a record that JSON.parse rejects
ConsumedCorrupt(r) ==
  /\ reqs[r].pc = "done"
  /\ reqs[r].stored # <<>>
  /\ JSONParseThrows(reqs[r].stored)

\* C16: when the record stored under the state token cannot be deserialized
\* the callback is answered with a state failure of its own (status 400 or
\* 403), not with the generic unexpected failure.
C16_CorruptStateIsStateFailure ==
  \A r \in Requests :
    ConsumedCorrupt(r) =>
      /\ reqs[r].resp.status \in {400, 403}
      /\ reqs[r].resp.body # "Internal server error"

\* what does hold: the request ends, answered 500, and issues nothing
CorruptStateEndsWithoutGrant ==
  \A r \in Requests :
    ConsumedCorrupt(r) =>
      /\ reqs[r].resp = Text("Internal server error", 500)
      /\ ~Completed(r, "consume")
      /\ \A g \in 1..Len(grants) : grants[g].stateToken # reqs[r].state

(***************************************************************************)
(* isClientApproved on cookies that fail to parse or to verify.             *)
(***************************************************************************)
\* C17: isClientApproved returns false, and does not throw, for every
\* approved-clients cookie that fails to parse or verify: absent, not
\* percent-decodable, without "|", wrongly signed, or signed but not JSON.
C17_BadCookieIsNotApproved ==
  (ac.stage = "priorChecked" /\ (ac.cookie = Undefined \/ ac.cookie \in BadCookies(ac.secret)))
    => ac.verdict.ok /\ ~ac.verdict.value

\* what does hold: no such cookie is accepted, and all but the undecodable
\* ones give false
BadCookieNeverApproved ==
  (ac.stage = "priorChecked" /\ (ac.cookie = Undefined \/ ac.cookie \in BadCookies(ac.secret)))
    => /\ ~(ac.verdict.ok /\ ac.verdict.value)
       /\ ac.cookie \notin UndecodableCookies => ac.verdict.ok

(***************************************************************************)
(* Who sets the approved-clients cookie.                                    *)
(***************************************************************************)
C18_Step ==
  /\ ServesGetAuthorize => ~SetsCookie(NewFlow.getResp, APPROVED_COOKIE)
  /\ \A r \in 1..Len(reqs') : ~SetsCookie(reqs'[r].resp, APPROVED_COOKIE)
  /\ \A f \in Flows :
       (ServesPostAuthorize(f) /\ SetsCookie(flows'[f].postResp, APPROVED_COOKIE))
         => /\ PassesCsrf(f)
            /\ flows'[f].submitted = "asRendered"
            /\ ~Falsy(flows[f].info.clientId)
            /\ flows'[f].postResp.status = 302
  /\ \A a \in Agents :
       jar'[a][APPROVED_COOKIE] # jar[a][APPROVED_COOKIE]
         => \E f \in Flows :
              /\ ServesPostAuthorize(f)
              /\ flows[f].agent = a
              /\ PassesCsrf(f)
              /\ flows'[f].postResp.status = 302

\* C18: a Set-Cookie for __Host-approved is emitted only by a POST /authorize
\* that passed the CSRF validation and decoded a request with a client id;
\* GET /authorize, GET /callback and a failing POST /authorize never emit it,
\* and a user agent's approved-clients cookie changes on no other step.
C18_ApprovalOnlyOnConfirmedConsent == [][C18_Step]_vars

C18_Witness ==
  \E f \in Flows, r \in Requests :
    /\ flows[f].getResp.status = 200
    /\ flows[f].postResp.status \in {400, 403}
    /\ flows[f].submitted # "asRendered"
    /\ reqs[r].pc = "done"

(***************************************************************************)
(* addApprovedClient on a request that already carries a record.            *)
(***************************************************************************)
\* the records of at most two client ids, none twice
ApprovalLists ==
  {<<>>} \cup {<<c>> : c \in ApprovalClientIds}
  \cup {<<c, d>> : <<c, d>> \in {p \in ApprovalClientIds \X ApprovalClientIds : p[1] # p[2]}}

\* C19: approving a client id that is in the validly signed record the
\* request carries gives a record with the same list of ids; approving a new
\* id gives the list with that id appended, every earlier id kept in place.
C19_ApproveIsIdempotent ==
  (ac.stage = "approved" /\ ~ac.tampered) =>
    \A list \in ApprovalLists :
      ac.prior = SignedText(JSONStringifyList(list), ac.secret)
        => ac.cookie =
             SignedText(JSONStringifyList(IF Includes(list, ac.clientId) THEN list
                                          ELSE Append(list, ac.clientId)),
                        ac.secret)

\* approved again: the record already held the id, and another one
C19_Witness ==
  /\ ac.stage = "approved"
  /\ ~ac.tampered
  /\ ac.clientId = ClientB
  /\ ac.prior = SignedText(JSONStringifyList(<<ClientPiped, ClientB>>), ac.secret)
  /\ ac.cookie = ac.prior

C19_WitnessAppends ==
  /\ ac.stage = "approved"
  /\ ~ac.tampered
  /\ ac.clientId = ClientPiped
  /\ ac.prior = SignedText(JSONStringifyList(<<ClientB, ClientA>>), ac.secret)
  /\ ac.cookie # ac.prior

(***************************************************************************)
(* The end of a stored state.  The store drops an entry when its            *)
(* expirationTtl has run out: under LiveSpec an entry that stays in the     *)
(* store cannot be kept from expiring for ever.                             *)
(***************************************************************************)
\* the keys createOAuthState can write
StateKeys == {KVKey(Uuid(n)) : n \in 0..(MaxRequests - 1)}

LiveSpec == Spec /\ \A key \in StateKeys : WF_vars(Expire(key))

EventuallyDestroyed ==
  \A key \in StateKeys : (key \in DOMAIN kv) ~> (key \notin DOMAIN kv)

C20_Step ==
  \A r \in Requests :
    \* a successful consume removes the entry
    /\ (~Completed(r, "consume") /\ Includes(reqs'[r].trace, "consume"))
         => KVKey(reqs[r].state) \notin DOMAIN kv'
    \* a read that finds no entry ends with the state-not-found error
    /\ (reqs[r].pc = "get" /\ reqs'[r].pc # "get" /\ KVKey(reqs[r].state) \notin DOMAIN kv)
         => /\ reqs'[r].pc = "done"
            /\ reqs'[r].resp = toResponse(400, "Invalid or expired state")

CallsTo(r, endpoint) ==
  Cardinality({i \in 1..Len(reqs[r].idpCalls) : reqs[r].idpCalls[i].endpoint = endpoint})

\* LINE answered one of r's fetches with a non-success status, or the token
\* response held no access token
IdpFailed(r) ==
  \E i \in 1..Len(reqs[r].idpCalls) : reqs[r].idpCalls[i].outcome # "ok"

IdpFailureEnds ==
  /\ \A r \in Requests :
       /\ CallsTo(r, "token") <= 1
       /\ CallsTo(r, "profile") <= 1
       /\ IdpFailed(r) => /\ reqs[r].pc = "done"
                          /\ reqs[r].resp.status = 500
                          /\ ~Completed(r, "issue")
  /\ Len(grants) = Cardinality({r \in Requests : Completed(r, "issue")})

\* an answered request takes no further step, and the step in which a call
\* fails makes no completeAuthorization call
C21_Step ==
  \A r \in Requests :
    /\ reqs[r].pc = "done" => reqs'[r] = reqs[r]
    /\ (~IdpFailed(r) /\ \E i \in 1..Len(reqs'[r].idpCalls) :
                            reqs'[r].idpCalls[i].outcome # "ok")
         => grants' = grants

\* C21: a callback whose token request gets a non-success status or a body
\* without access token, or whose profile request gets a non-success status,
\* is answered 500; the request is over, each of the two LINE endpoints was
\* called at most once for it, and completeAuthorization is not called.
C21_IdpFailureIsTerminal500 == []IdpFailureEnds /\ [][C21_Step]_vars

\* the token request succeeded and the profile request was refused
C21_Witness ==
  \E r \in Requests :
    /\ reqs[r].idpCalls = <<IdpCall("token", "ok"), IdpCall("profile", "notOk")>>
    /\ reqs[r].pc = "done"
    /\ reqs[r].resp.status = 500
    /\ grants = <<>>

\* the token response held no access token
C21_WitnessNoAccessToken ==
  \E r \in Requests :
    /\ reqs[r].idpCalls = <<IdpCall("token", "noAccessToken")>>
    /\ reqs[r].resp = Response(500, "Missing access token from LINE", <<>>, NoLocation)

(***************************************************************************)
(* What completeAuthorization is called with.                               *)
(***************************************************************************)
\* grant g was made by request r, the callback of flow f
GrantOf(g, r, f) ==
  /\ Completed(r, "issue")
  /\ reqs[r].state = grants[g].stateToken
  /\ flows[f].stateToken = reqs[r].state

\* C22: every completeAuthorization call passes as request the pending
\* authorization that was stored under the callback's state token, as userId
\* the userId of the fetched LINE profile, and as props exactly lineUserId
\* (that userId), supabaseUserId (what the sign-in returned) and displayName
\* (the profile's).
C22_IssuanceArguments ==
  \A g \in 1..Len(grants) :
    \E r \in Requests, f \in Flows :
      /\ GrantOf(g, r, f)
      /\ grants[g].request = flows[f].info
      /\ grants[g].userId = ProfileOf(reqs[r].code).userId
      /\ DOMAIN grants[g].props = {"lineUserId", "supabaseUserId", "displayName"}
      /\ grants[g].props.lineUserId = ProfileOf(reqs[r].code).userId
      /\ grants[g].props.supabaseUserId = SupabaseUserOf(ProfileOf(reqs[r].code).userId)
      /\ grants[g].props.displayName = ProfileOf(reqs[r].code).displayName

\* a token was issued for the request without code challenge, which went
\* through the consent form and the store
C22_Witness ==
  \E g \in 1..Len(grants), f \in Flows :
    /\ flows[f].stateToken = grants[g].stateToken
    /\ flows[f].postResp.status = 302
    /\ grants[g].request.clientId = ClientB
    /\ grants[g].request.codeChallenge = Undefined

(***************************************************************************)
(* The POST /authorize that is refused.                                     *)
(***************************************************************************)
\* the state field is absent, cannot be decoded, or decodes to a value
\* without a client id
StateFieldRejected(variant) ==
  variant \in {"noState", "garbageState", "noRequest", "noClientId", "nullState"}

\* the response sets neither the approved-clients nor the session cookie, and
\* the step leaves the store and both cookies of the user agent as they were
PostWithoutEffect(f) ==
  /\ kv' = kv
  /\ ~SetsCookie(flows'[f].postResp, APPROVED_COOKIE)
  /\ ~SetsCookie(flows'[f].postResp, SESSION_COOKIE)
  /\ jar'[flows[f].agent][APPROVED_COOKIE] = jar[flows[f].agent][APPROVED_COOKIE]
  /\ jar'[flows[f].agent][SESSION_COOKIE] = jar[flows[f].agent][SESSION_COOKIE]

C23_Step ==
  \A f \in Flows :
    (ServesPostAuthorize(f) /\ (~PassesCsrf(f) \/ StateFieldRejected(flows'[f].submitted)))
      => /\ flows'[f].postResp.status \in {400, 403}
         /\ flows'[f].postResp.status = 403 => ~PassesCsrf(f)
         /\ PostWithoutEffect(f)

RejectedPostStep ==
  \A f \in Flows :
    (ServesPostAuthorize(f) /\ (~PassesCsrf(f) \/ StateFieldRejected(flows'[f].submitted)))
      => /\ flows'[f].postResp.status \in {400, 403, 500}
         /\ flows'[f].postResp.status = 403 => ~PassesCsrf(f)
         /\ flows'[f].postResp.status = 500
              => PassesCsrf(f) /\ flows'[f].submitted = "nullState"
         /\ PostWithoutEffect(f)

\* what does hold: such a POST has no effect, and is answered 400 or 403
\* unless its state field decodes to null
RejectedPostLeavesNoTrace == [][RejectedPostStep]_vars

(***************************************************************************)
(* The callback that is refused before the store is read.                   *)
(***************************************************************************)
BindingFailures ==
  { toResponse(400, "Missing state parameter"),
    toResponse(400, "Missing session cookie"),
    toResponse(403, "Session binding mismatch") }

\* the step receives a callback
ServesCallback == Len(reqs') = Len(reqs) + 1

NewCallback == reqs'[Len(reqs')]

\* the callback has no state parameter, no session cookie, or a session
\* cookie that is not the hash of its state parameter
BindingFails(req) ==
  \/ Falsy(req.state)
  \/ Falsy(parseCookies(req.cookieHeader)[SESSION_COOKIE])
  \/ parseCookies(req.cookieHeader)[SESSION_COOKIE] # sha256(req.state)

C24_Step ==
  /\ (ServesCallback /\ BindingFails(NewCallback))
       => /\ NewCallback.resp \in BindingFailures
          /\ NewCallback.pc = "done"
          /\ NewCallback.stored = <<>>
          /\ kv' = kv
  /\ \A r \in Requests :
       reqs[r].resp \in BindingFailures => (reqs'[r] = reqs[r] /\ reqs[r].stored = <<>>)

\* C24: a callback refused for a missing state parameter, a missing session
\* cookie or a session cookie that does not match sha256(state) leaves the
\* store as it was, the entry under its state token neither read nor
\* deleted; a later callback with the right session cookie consumes it.
C24_RefusedCallbackLeavesStore == [][C24_Step]_vars

\* user agent 2 was refused for the state token of user agent 1, whose own
\* callback then consumed the pending authorization
C24_Witness ==
  \E r, q \in Requests :
    /\ r < q
    /\ ~Falsy(reqs[r].state)
    /\ reqs[q].state = reqs[r].state
    /\ reqs[r].resp \in BindingFailures
    /\ Completed(q, "consume")
    /\ reqs[q].oauthReqInfo = RedirectedRequest

(***************************************************************************)
(* The state token is spent before the callback can fail further on.        *)
(***************************************************************************)
\* request r passed the state validation and was then refused: no code, a
\* failed call to LINE, or no linked account
FailedAfterValidation(r) ==
  /\ reqs[r].pc = "done"
  /\ \/ reqs[r].resp = Text("Missing authorization code", 400)
     \/ IdpFailed(r)
     \/ reqs[r].resp = AccountNotLinked

\* the entry is gone before the code is looked at and before any call to
\* LINE or Supabase
ConsumedBeforeCalls ==
  \A r \in Requests :
    ( \/ FailedAfterValidation(r)
      \/ reqs[r].idpCalls # <<>>
      \/ reqs[r].pc \in {"exchange", "profile", "signIn", "issue"} )
      => /\ Completed(r, "consume")
         /\ KVKey(reqs[r].state) \notin DOMAIN kv

\* the step receives a callback for a state token that a refused request
\* has spent
ServesCallbackForSpentState ==
  /\ ServesCallback
  /\ \E q \in Requests : FailedAfterValidation(q) /\ reqs[q].state = NewCallback.state

\* a read of the store for a state token that a refused request has spent
\* ends with the state-not-found error
ReadOfSpentStateFails ==
  \A r \in Requests :
    ( /\ reqs[r].pc = "get"
      /\ reqs'[r].pc # "get"
      /\ \E q \in Requests : FailedAfterValidation(q) /\ reqs[q].state = reqs[r].state )
      => /\ reqs'[r].pc = "done"
         /\ reqs'[r].resp = toResponse(400, "Invalid or expired state")

C25_Step ==
  /\ ReadOfSpentStateFails
  /\ ServesCallbackForSpentState
       => \/ NewCallback.pc = "get"
          \/ BindingFails(NewCallback) /\ NewCallback.resp \in BindingFailures

\* C25 (as amended): a callback that passed the state validation and then
\* failed for a missing code, a failed call to LINE or an account that is not
\* linked has deleted the pending authorization before any of these; a later
\* callback with the same state token is refused: with 400 "Invalid or
\* expired state" when it passes the session check, with the error of the
\* session check when it does not.
C25_StateSpentBeforeFailure == []ConsumedBeforeCalls /\ [][C25_Step]_vars

C25_OriginalStep ==
  /\ ReadOfSpentStateFails
  /\ ServesCallbackForSpentState => NewCallback.pc = "get"

\* C25 (as stated): every later callback with the same state token fails
\* with "Invalid or expired state".
C25_LaterCallbackIsStateNotFound == []ConsumedBeforeCalls /\ [][C25_OriginalStep]_vars

\* a callback without code spent the state token; the same user agent's
\* next callback for it was refused with the state-not-found error
C25_Witness ==
  \E q, r \in Requests :
    /\ q < r
    /\ reqs[q].resp = Text("Missing authorization code", 400)
    /\ reqs[r].state = reqs[q].state
    /\ Completed(r, "verify")
    /\ reqs[r].resp = toResponse(400, "Invalid or expired state")

(***************************************************************************)
(* The one state token of a redirect to LINE.                               *)
(***************************************************************************)
\* every uuid handed out so far, as a state token or as a CSRF token
TokensInUse ==
  IssuedStateTokens
  \cup {flows[f].csrfToken : f \in {g \in Flows : flows[g].csrfToken # Undefined}}

\* resp redirects to LINE for the pending authorization info: its state
\* parameter is a new token, the step stores info under that token's key and
\* nothing else, and the session cookie of resp is the hash of that token
RedirectsWithOneToken(resp, info) ==
  /\ resp.location.to = "line"
  /\ resp.location.state \notin TokensInUse
  /\ DOMAIN kv' = (DOMAIN kv) \cup {KVKey(resp.location.state)}
  /\ KVKey(resp.location.state) \notin DOMAIN kv
  /\ kv'[KVKey(resp.location.state)] = JSONStringifyRequest(info)
  /\ SetsCookie(resp, SESSION_COOKIE)
  /\ \A i \in 1..Len(resp.setCookies) :
       resp.setCookies[i].name = SESSION_COOKIE
         => resp.setCookies[i].value = sha256(resp.location.state)

C26_Step ==
  /\ (ServesGetAuthorize /\ NewFlow.getResp.status = 302)
       => RedirectsWithOneToken(NewFlow.getResp, NewFlow.info)
  /\ \A f \in Flows :
       (ServesPostAuthorize(f) /\ flows'[f].postResp.status = 302)
         => RedirectsWithOneToken(flows'[f].postResp, flows[f].info)

\* C26: in every /authorize response that redirects to LINE, from the fast
\* path of GET or from a successful POST, one newly generated state token is
\* the key the pending authorization was stored under, the state parameter
\* of the LINE authorize URL, and the value whose SHA-256 the response's
\* session cookie carries.
C26_OneTokenThreeUses == [][C26_Step]_vars

\* one flow was redirected by its GET, another by its POST, each with a
\* token and a stored request of its own
C26_Witness ==
  \E f, g \in Flows :
    /\ flows[f].getResp.status = 302
    /\ flows[g].postResp.status = 302
    /\ flows[f].stateToken # flows[g].stateToken
    /\ KVKey(flows[f].stateToken) \in DOMAIN kv
    /\ KVKey(flows[g].stateToken) \in DOMAIN kv
    /\ kv[KVKey(flows[g].stateToken)] = JSONStringifyRequest(flows[g].info)

====
